---- MODULE Spec2Model ----
(***************************************************************************)
(* Model of mutt_account.c: the Account object used by POP, IMAP, SMTP and *)
(* NNTP connections (matching, URL bridge, credential resolution and the   *)
(* OAUTHBEARER token builder).                                             *)
(*                                                                         *)
(* C strings are sequences of byte values; a NULL pointer is the marker    *)
(* NULL.  The configuration globals are the fields of cfg.  Every call     *)
(* leaves a record of itself in last: the operation, its return value, the *)
(* diagnostic it raised and the ordered globals it read and external       *)
(* services it called (events).                                            *)
(***************************************************************************)
EXTENDS Integers, Sequences, FiniteSets, TLC

VARIABLES account, cfg, last

vars == <<account, cfg, last>>

----------------------------------------------------------------------------
(* Bounds of the model.                                                    *)

\* Buffer sizes of Account.host / .user / .pass, scaled down: a buffer of
\* size n holds n-1 bytes and the terminating NUL.
HostSize == 3
UserSize == 3
PassSize == 3
\* Account.login has the size of Account.user.
LoginSize == UserSize
\* At most this many configuration strings are non-NULL at once.
MaxConfigured == 2

----------------------------------------------------------------------------
(* C strings.                                                              *)

NULL == <<-1>>

NONULL(s) == IF s = NULL THEN <<>> ELSE s

Min(a, b) == IF a < b THEN a ELSE b

\* A string one byte too long for a buffer of the given size.
Fill(size, ch) == [i \in 1..size |-> ch]

\* mutt_str_strfcpy(dest, src, dsize): at most dsize-1 bytes of src; a NULL
\* src leaves the empty string.
mutt_str_strfcpy(src, dsize) ==
  IF src = NULL THEN <<>> ELSE SubSeq(src, 1, Min(Len(src), dsize - 1))

\* snprintf(buf, size, ...): the formatted text cut to size-1 bytes.
snprintf(size, text) == SubSeq(text, 1, Min(Len(text), size - 1))

strcmp(a, b) == IF a = b THEN 0 ELSE 1

ToLower(ch) == IF ch >= 65 /\ ch =< 90 THEN ch + 32 ELSE ch

LowerStr(s) == [i \in 1..Len(s) |-> ToLower(s[i])]

\* Mutant: the letters compared with their case.
strcasecmp_exact(a, b) ==
  IF NONULL(a) = NONULL(b) THEN 0 ELSE 1

\* mutt_str_strcasecmp: NULL compares as "", letters compare without case.
mutt_str_strcasecmp(a, b) ==
  IF LowerStr(NONULL(a)) = LowerStr(NONULL(b)) THEN 0 ELSE 1

RECURSIVE DecStr(_)
\* printf("%d") of a non-negative integer.
DecStr(n) == IF n < 10 THEN <<48 + n>> ELSE DecStr(n \div 10) \o <<48 + (n % 10)>>

----------------------------------------------------------------------------
(* Account and configuration.                                              *)

MUTT_ACCT_TYPE_IMAP == "IMAP"
MUTT_ACCT_TYPE_POP == "POP"
MUTT_ACCT_TYPE_SMTP == "SMTP"
MUTT_ACCT_TYPE_NNTP == "NNTP"

AcctTypes ==
  {MUTT_ACCT_TYPE_IMAP, MUTT_ACCT_TYPE_POP, MUTT_ACCT_TYPE_SMTP, MUTT_ACCT_TYPE_NNTP}

MUTT_ACCT_PORT == "PORT"
MUTT_ACCT_USER == "USER"
MUTT_ACCT_LOGIN == "LOGIN"
MUTT_ACCT_PASS == "PASS"
MUTT_ACCT_SSL == "SSL"

\* An Account as its construction leaves it: every buffer empty, port 0, no
\* field flagged; the protocol type and the SSL bit come from the caller.
FreshAccount(type, ssl) ==
  [type |-> type, host |-> <<>>, user |-> <<>>, login |-> <<>>, pass |-> <<>>,
   port |-> 0, flags |-> IF ssl THEN {MUTT_ACCT_SSL} ELSE {}]

\* The string configuration variables of this file.  cfg holds them together
\* with the system login name Username and the option OptNoCurses.
ConfigVars ==
  {"ImapUser", "PopUser", "NntpUser", "ImapLogin",
   "ImapPass", "PopPass", "SmtpPass", "NntpPass",
   "ImapOauthRefreshCmd", "PopOauthRefreshCmd", "SmtpOauthRefreshCmd"}

----------------------------------------------------------------------------
(* mutt_account_match                                                      *)

\* Mutant: the configured defaults ignored.
MatchDefaultUser_username(a1, c) ==
  NONULL(c.Username)

\* The username an account without explicit user is taken to have: Username,
\* unless the protocol of a1 has a configured default.
MatchDefaultUser(a1, c) ==
  LET user0 == NONULL(c.Username)
      user1 == IF a1.type = MUTT_ACCT_TYPE_IMAP /\ c.ImapUser # NULL
               THEN c.ImapUser ELSE user0
      user2 == IF a1.type = MUTT_ACCT_TYPE_POP /\ c.PopUser # NULL
               THEN c.PopUser ELSE user1
  IN  IF a1.type = MUTT_ACCT_TYPE_NNTP /\ c.NntpUser # NULL
      THEN c.NntpUser ELSE user2

\* Mutant: the strcmp result returned as it is, without "== 0".
MatchBothUser_raw(a1, a2) ==
  strcmp(a1.user, a2.user)

\* "return strcmp(a1->user, a2->user) == 0;"
MatchBothUser(a1, a2) ==
  IF strcmp(a1.user, a2.user) = 0 THEN 1 ELSE 0

\* Mutant: the test of a1->user[0] left out.
MatchNntp_anyuser(a1) ==
  IF MUTT_ACCT_USER \in a1.flags THEN 0 ELSE 1

\* "return a1->flags & MUTT_ACCT_USER && a1->user[0] ? 0 : 1;"
MatchNntp(a1) ==
  IF MUTT_ACCT_USER \in a1.flags /\ a1.user # <<>> THEN 0 ELSE 1

mutt_account_match(a1, a2, c) ==
  LET user == MatchDefaultUser(a1, c)
  IN  IF a1.type # a2.type THEN 0
      ELSE IF mutt_str_strcasecmp(a1.host, a2.host) # 0 THEN 0
      ELSE IF a1.port # a2.port THEN 0
      ELSE IF MUTT_ACCT_USER \in (a1.flags \cap a2.flags)
      THEN MatchBothUser(a1, a2)
      ELSE IF a1.type = MUTT_ACCT_TYPE_NNTP
      THEN MatchNntp(a1)
      ELSE IF MUTT_ACCT_USER \in a1.flags
      THEN (IF strcmp(a1.user, user) = 0 THEN 1 ELSE 0)
      ELSE IF MUTT_ACCT_USER \in a2.flags
      THEN (IF strcmp(a2.user, user) = 0 THEN 1 ELSE 0)
      ELSE 1

----------------------------------------------------------------------------
(* mutt_account_fromurl, mutt_account_tourl                                *)

\* struct Url as this file uses it; port 0 is "no port".
NoUrl ==
  [scheme |-> "U_UNKNOWN", host |-> NULL, user |-> NULL, pass |-> NULL,
   port |-> 0, path |-> NULL]

\* Mutant: the port copied without "account->flags |= MUTT_ACCT_PORT".
fromurl_noportflag(a, url) ==
  IF url.host = NULL THEN [ret |-> -1, account |-> a]
  ELSE
    LET a0 == [a EXCEPT !.host = mutt_str_strfcpy(url.host, HostSize)]
        a1 == IF url.user # NULL
              THEN [a0 EXCEPT !.user = mutt_str_strfcpy(url.user, UserSize),
                              !.flags = @ \cup {MUTT_ACCT_USER}]
              ELSE a0
        a2 == IF url.pass # NULL
              THEN [a1 EXCEPT !.pass = mutt_str_strfcpy(url.pass, PassSize),
                              !.flags = @ \cup {MUTT_ACCT_PASS}]
              ELSE a1
    IN  [ret |-> 0, account |-> [a2 EXCEPT !.port = url.port]]

mutt_account_fromurl(a, url) ==
  IF url.host = NULL THEN [ret |-> -1, account |-> a]
  ELSE
    LET a0 == [a EXCEPT !.host = mutt_str_strfcpy(url.host, HostSize)]
        a1 == IF url.user # NULL
              THEN [a0 EXCEPT !.user = mutt_str_strfcpy(url.user, UserSize),
                              !.flags = @ \cup {MUTT_ACCT_USER}]
              ELSE a0
        a2 == IF url.pass # NULL
              THEN [a1 EXCEPT !.pass = mutt_str_strfcpy(url.pass, PassSize),
                              !.flags = @ \cup {MUTT_ACCT_PASS}]
              ELSE a1
        a3 == IF url.port # 0
              THEN [a2 EXCEPT !.port = url.port,
                              !.flags = @ \cup {MUTT_ACCT_PORT}]
              ELSE a2
    IN  [ret |-> 0, account |-> a3]

\* The scheme table of mutt_account_tourl: (type, SSL bit) -> scheme.
UrlScheme(a) ==
  LET ssl == MUTT_ACCT_SSL \in a.flags
      s0 == "U_UNKNOWN"
      s1 == IF a.type = MUTT_ACCT_TYPE_IMAP
            THEN (IF ssl THEN "U_IMAPS" ELSE "U_IMAP") ELSE s0
      s2 == IF a.type = MUTT_ACCT_TYPE_POP
            THEN (IF ssl THEN "U_POPS" ELSE "U_POP") ELSE s1
      s3 == IF a.type = MUTT_ACCT_TYPE_SMTP
            THEN (IF ssl THEN "U_SMTPS" ELSE "U_SMTP") ELSE s2
  IN  IF a.type = MUTT_ACCT_TYPE_NNTP
      THEN (IF ssl THEN "U_NNTPS" ELSE "U_NNTP") ELSE s3

mutt_account_tourl(a) ==
  [scheme |-> UrlScheme(a),
   host |-> a.host,
   port |-> IF MUTT_ACCT_PORT \in a.flags THEN a.port ELSE 0,
   user |-> IF MUTT_ACCT_USER \in a.flags THEN a.user ELSE NULL,
   pass |-> IF MUTT_ACCT_PASS \in a.flags THEN a.pass ELSE NULL,
   path |-> NULL]

----------------------------------------------------------------------------
(* mutt_account_getuser, _getlogin, _getpass, _unsetpass                   *)

\* An outcome pr of mutt_get_field_unbuffered / mutt_get_password is its
\* return code and the text typed; text NULL keeps what the buffer was
\* seeded with.
PromptBuf(pr, seed, size) ==
  IF pr.buf = NULL THEN seed ELSE mutt_str_strfcpy(pr.buf, size)

\* Mutant: the branches of POP and NNTP left out.
UserConfig_imaponly(a, c) ==
  IF a.type = MUTT_ACCT_TYPE_IMAP /\ c.ImapUser # NULL THEN c.ImapUser
  ELSE NULL

\* The configured default username the else-if chain of getuser finds for
\* the account's protocol (NULL: none), and the globals the chain reads.
UserConfig(a, c) ==
  IF a.type = MUTT_ACCT_TYPE_IMAP /\ c.ImapUser # NULL THEN c.ImapUser
  ELSE IF a.type = MUTT_ACCT_TYPE_POP /\ c.PopUser # NULL THEN c.PopUser
  ELSE IF a.type = MUTT_ACCT_TYPE_NNTP /\ c.NntpUser # NULL THEN c.NntpUser
  ELSE NULL

UserConfigRead(a) ==
  IF a.type = MUTT_ACCT_TYPE_IMAP THEN <<"ImapUser">>
  ELSE IF a.type = MUTT_ACCT_TYPE_POP THEN <<"PopUser">>
  ELSE IF a.type = MUTT_ACCT_TYPE_NNTP THEN <<"NntpUser">>
  ELSE <<>>

\* The last branch of getuser: the prompt, seeded with Username.
getuser_prompt(a, c, pr, ev) ==
  LET buf == PromptBuf(pr, mutt_str_strfcpy(c.Username, UserSize), UserSize)
      evp == ev \o <<"Username", "mutt_get_field_unbuffered">>
  IN  IF pr.rc # 0
      THEN [ret |-> -1, events |-> evp, account |-> [a EXCEPT !.user = buf]]
      ELSE [ret |-> 0, events |-> evp,
            account |-> [a EXCEPT !.user = buf,
                                  !.flags = @ \cup {MUTT_ACCT_USER}]]

\* getuser past the "already set" test.
getuser_resolve(a, c, pr) ==
  LET cu == UserConfig(a, c)
      ev == UserConfigRead(a)
  IN  IF cu # NULL
      THEN [ret |-> 0, events |-> ev,
            account |-> [a EXCEPT !.user = mutt_str_strfcpy(cu, UserSize),
                                  !.flags = @ \cup {MUTT_ACCT_USER}]]
      ELSE IF c.OptNoCurses
      THEN [ret |-> -1, events |-> ev \o <<"OptNoCurses">>, account |-> a]
      ELSE getuser_prompt(a, c, pr, ev \o <<"OptNoCurses">>)

mutt_account_getuser(a, c, pr) ==
  IF MUTT_ACCT_USER \in a.flags
  THEN [ret |-> 0, events |-> <<>>, account |-> a]
  ELSE getuser_resolve(a, c, pr)

\* Mutant: ImapLogin ignored, the login always taken from the user.
getlogin_viauser(a, c, pr) ==
  IF MUTT_ACCT_LOGIN \in a.flags
  THEN [ret |-> 0, events |-> <<>>, account |-> a]
  ELSE
    LET u == mutt_account_getuser(a, c, pr)
    IN  IF u.ret = 0
        THEN [ret |-> 0, events |-> u.events,
              account |->
                [u.account EXCEPT
                   !.login = mutt_str_strfcpy(u.account.user, LoginSize),
                   !.flags = @ \cup {MUTT_ACCT_LOGIN}]]
        ELSE [ret |-> -1, events |-> u.events \o <<"mutt_debug">>,
              account |-> u.account]

mutt_account_getlogin(a, c, pr) ==
  IF MUTT_ACCT_LOGIN \in a.flags
  THEN [ret |-> 0, events |-> <<>>, account |-> a]
  ELSE
    LET ev1 == IF a.type = MUTT_ACCT_TYPE_IMAP THEN <<"ImapLogin">> ELSE <<>>
        a1 == IF a.type = MUTT_ACCT_TYPE_IMAP /\ c.ImapLogin # NULL
              THEN [a EXCEPT !.login = mutt_str_strfcpy(c.ImapLogin, LoginSize),
                             !.flags = @ \cup {MUTT_ACCT_LOGIN}]
              ELSE a
    IN  IF MUTT_ACCT_LOGIN \notin a1.flags
        THEN LET u == mutt_account_getuser(a1, c, pr)
             IN  IF u.ret = 0
                 THEN [ret |-> 0, events |-> ev1 \o u.events,
                       account |->
                         [u.account EXCEPT
                            !.login = mutt_str_strfcpy(u.account.user, LoginSize),
                            !.flags = @ \cup {MUTT_ACCT_LOGIN}]]
                 ELSE [ret |-> -1, events |-> ev1 \o u.events \o <<"mutt_debug">>,
                       account |-> u.account]
        ELSE [ret |-> 0, events |-> ev1, account |-> a1]

\* The configured password the else-if chain of getpass finds for the
\* account's protocol (NULL: none), and the globals the chain reads.
PassConfig(a, c) ==
  IF a.type = MUTT_ACCT_TYPE_IMAP /\ c.ImapPass # NULL THEN c.ImapPass
  ELSE IF a.type = MUTT_ACCT_TYPE_POP /\ c.PopPass # NULL THEN c.PopPass
  ELSE IF a.type = MUTT_ACCT_TYPE_SMTP /\ c.SmtpPass # NULL THEN c.SmtpPass
  ELSE IF a.type = MUTT_ACCT_TYPE_NNTP /\ c.NntpPass # NULL THEN c.NntpPass
  ELSE NULL

PassConfigRead(a) ==
  IF a.type = MUTT_ACCT_TYPE_IMAP THEN <<"ImapPass">>
  ELSE IF a.type = MUTT_ACCT_TYPE_POP THEN <<"PopPass">>
  ELSE IF a.type = MUTT_ACCT_TYPE_SMTP THEN <<"SmtpPass">>
  ELSE IF a.type = MUTT_ACCT_TYPE_NNTP THEN <<"NntpPass">>
  ELSE <<>>

\* Mutant: "=" written for "|=", the other flags lost.
getpass_setflag_only(a) ==
  [a EXCEPT !.flags = {MUTT_ACCT_PASS}]

\* The flag update that ends a successful getpass ("account->flags |= ...").
getpass_setflag(a) ==
  [a EXCEPT !.flags = @ \cup {MUTT_ACCT_PASS}]

\* Mutant: the PASS flag set before the prompt's return code is tested.
getpass_prompt_flagfirst(a, c, pr, ev) ==
  [ret |-> IF pr.rc # 0 THEN -1 ELSE 0,
   events |-> ev \o <<"mutt_get_password">>,
   account |-> getpass_setflag([a EXCEPT !.pass = PromptBuf(pr, <<>>, PassSize)])]

\* The last branch of getpass: pass[0] = '\0', then the password prompt.
getpass_prompt(a, c, pr, ev) ==
  LET buf == PromptBuf(pr, <<>>, PassSize)
      evp == ev \o <<"mutt_get_password">>
  IN  IF pr.rc # 0
      THEN [ret |-> -1, events |-> evp, account |-> [a EXCEPT !.pass = buf]]
      ELSE [ret |-> 0, events |-> evp,
            account |-> getpass_setflag([a EXCEPT !.pass = buf])]

\* Mutant: the OptNoCurses test left out.
getpass_resolve_nocheck(a, c, pr) ==
  LET cp == PassConfig(a, c)
      ev == PassConfigRead(a)
  IN  IF cp # NULL
      THEN [ret |-> 0, events |-> ev,
            account |->
              getpass_setflag([a EXCEPT !.pass = mutt_str_strfcpy(cp, PassSize)])]
      ELSE getpass_prompt(a, c, pr, ev)

\* getpass past the "already set" test.
getpass_resolve(a, c, pr) ==
  LET cp == PassConfig(a, c)
      ev == PassConfigRead(a)
  IN  IF cp # NULL
      THEN [ret |-> 0, events |-> ev,
            account |->
              getpass_setflag([a EXCEPT !.pass = mutt_str_strfcpy(cp, PassSize)])]
      ELSE IF c.OptNoCurses
      THEN [ret |-> -1, events |-> ev \o <<"OptNoCurses">>, account |-> a]
      ELSE getpass_prompt(a, c, pr, ev \o <<"OptNoCurses">>)

\* Mutant: the "already set" test left out.
getpass_noflagtest(a, c, pr) ==
  getpass_resolve(a, c, pr)

mutt_account_getpass(a, c, pr) ==
  IF MUTT_ACCT_PASS \in a.flags
  THEN [ret |-> 0, events |-> <<>>, account |-> a]
  ELSE getpass_resolve(a, c, pr)

\* Mutant: the stored characters wiped together with the flag.
unsetpass_wipe(a) ==
  [a EXCEPT !.flags = @ \ {MUTT_ACCT_PASS}, !.pass = <<>>]

\* Mutant: the flag is not cleared.
unsetpass_noop(a) ==
  a

mutt_account_unsetpass(a) ==
  [a EXCEPT !.flags = @ \ {MUTT_ACCT_PASS}]

----------------------------------------------------------------------------
(* mutt_account_getoauthbearer                                             *)

\* The base64 alphabet (B64Chars), as byte values.
B64Chars ==
  [i \in 0..63 |->
     IF i < 26 THEN 65 + i
     ELSE IF i < 52 THEN 97 + (i - 26)
     ELSE IF i < 62 THEN 48 + (i - 52)
     ELSE IF i = 62 THEN 43 ELSE 47]

RECURSIVE mutt_b64_encode(_)
\* Standard base64 with '=' padding of a byte sequence.
mutt_b64_encode(in) ==
  IF Len(in) = 0 THEN <<>>
  ELSE IF Len(in) = 1
  THEN <<B64Chars[in[1] \div 4], B64Chars[(in[1] % 4) * 16], 61, 61>>
  ELSE IF Len(in) = 2
  THEN <<B64Chars[in[1] \div 4],
         B64Chars[(in[1] % 4) * 16 + in[2] \div 16],
         B64Chars[(in[2] % 16) * 4], 61>>
  ELSE <<B64Chars[in[1] \div 4],
         B64Chars[(in[1] % 4) * 16 + in[2] \div 16],
         B64Chars[(in[2] % 16) * 4 + in[3] \div 64],
         B64Chars[in[3] % 64]>>
       \o mutt_b64_encode(SubSeq(in, 4, Len(in)))

\* The pieces of the format "n,a=%s,\001host=%s\001port=%d\001auth=Bearer %s\001\001".
FmtNA == <<110, 44, 97, 61>>
FmtHost == <<44, 1, 104, 111, 115, 116, 61>>
FmtPort == <<1, 112, 111, 114, 116, 61>>
FmtAuth == <<1, 97, 117, 116, 104, 61, 66, 101, 97, 114, 101, 114, 32>>
FmtEnd == <<1, 1>>

\* Mutant: the IMAP command taken whatever the account's type.
OauthCmd_anytype(a, c) ==
  IF c.ImapOauthRefreshCmd # NULL
  THEN c.ImapOauthRefreshCmd
  ELSE IF a.type = MUTT_ACCT_TYPE_POP /\ c.PopOauthRefreshCmd # NULL
  THEN c.PopOauthRefreshCmd
  ELSE IF a.type = MUTT_ACCT_TYPE_SMTP /\ c.SmtpOauthRefreshCmd # NULL
  THEN c.SmtpOauthRefreshCmd
  ELSE NULL

\* The refresh command the if / else-if chain selects (NULL: none), and the
\* globals the chain reads.
OauthCmd(a, c) ==
  IF a.type = MUTT_ACCT_TYPE_IMAP /\ c.ImapOauthRefreshCmd # NULL
  THEN c.ImapOauthRefreshCmd
  ELSE IF a.type = MUTT_ACCT_TYPE_POP /\ c.PopOauthRefreshCmd # NULL
  THEN c.PopOauthRefreshCmd
  ELSE IF a.type = MUTT_ACCT_TYPE_SMTP /\ c.SmtpOauthRefreshCmd # NULL
  THEN c.SmtpOauthRefreshCmd
  ELSE NULL

OauthCmdRead(a) ==
  IF a.type = MUTT_ACCT_TYPE_IMAP THEN <<"ImapOauthRefreshCmd">>
  ELSE IF a.type = MUTT_ACCT_TYPE_POP THEN <<"PopOauthRefreshCmd">>
  ELSE IF a.type = MUTT_ACCT_TYPE_SMTP THEN <<"SmtpOauthRefreshCmd">>
  ELSE <<>>

\* Mutant: the 50 bytes of overhead forgotten.
OaLen_nooverhead(login, host, token) ==
  Len(login) + Len(host) + Len(token)

\* oalen: the size of the buffer the token text is formatted into.
OaLen(login, host, token) == Len(login) + Len(host) + Len(token) + 50

\* Mutant: only the NULL line taken for empty, "*token == '\0'" left out.
OauthTokenEmpty_nullonly(token) ==
  token = NULL

\* "if (token == NULL || *token == '\0')"
OauthTokenEmpty(token) ==
  token = NULL \/ token = <<>>

\* Mutant: the process left without mutt_wait_filter.
OauthRun_nowait ==
  <<"mutt_create_filter", "mutt_file_read_line", "mutt_file_fclose">>

\* The process service calls of a run of the refresh command, in the order
\* of the code: spawn, read one line, close the stream, wait.
OauthRun ==
  <<"mutt_create_filter", "mutt_file_read_line", "mutt_file_fclose",
    "mutt_wait_filter">>

\* proc is the outcome of the process service: whether mutt_create_filter
\* succeeds, the line mutt_file_read_line returns (NULL at end of file) and
\* the exit status mutt_wait_filter returns, which the code drops.
mutt_account_getoauthbearer(a, c, pr, proc) ==
  LET l == mutt_account_getlogin(a, c, pr)
      acct == l.account
      fail(ev, err) ==
        [ret |-> NULL, err |-> err, events |-> l.events \o ev, account |-> acct]
      cmd == OauthCmd(acct, c)
      evc == OauthCmdRead(acct)
      evio == evc \o OauthRun
      token == proc.line
      oauthbearer ==
        snprintf(OaLen(acct.login, acct.host, token),
                 FmtNA \o acct.login \o FmtHost \o acct.host \o FmtPort
                   \o DecStr(acct.port) \o FmtAuth \o token \o FmtEnd)
  IN  IF l.ret # 0
      THEN [ret |-> NULL, err |-> "None", events |-> l.events, account |-> acct]
      ELSE IF cmd = NULL
      THEN fail(evc \o <<"mutt_error">>, "NoRefreshCommand")
      ELSE IF ~proc.spawned
      THEN fail(evc \o <<"mutt_create_filter", "mutt_perror">>, "SpawnFailed")
      ELSE IF OauthTokenEmpty(token)
      THEN fail(evio \o <<"mutt_error">>, "EmptyRefreshToken")
      ELSE [ret |-> mutt_b64_encode(oauthbearer), err |-> "None",
            events |-> l.events \o evio \o <<"mutt_b64_encode">>,
            account |-> acct]

----------------------------------------------------------------------------
(* Inputs of the calls.                                                    *)

\* The value each configuration variable holds when it is set.
CfgVal ==
  [ImapUser |-> <<99>>, PopUser |-> <<99>>, NntpUser |-> <<99>>,
   ImapLogin |-> <<108>>,
   ImapPass |-> <<112>>, PopPass |-> <<112>>, SmtpPass |-> <<112>>,
   NntpPass |-> <<112>>,
   ImapOauthRefreshCmd |-> <<120>>, PopOauthRefreshCmd |-> <<120>>,
   SmtpOauthRefreshCmd |-> <<120>>]

\* Values one byte longer than the Account's buffer for them holds.
CfgLong ==
  [ImapUser |-> Fill(UserSize, 99), PopUser |-> Fill(UserSize, 99),
   NntpUser |-> Fill(UserSize, 99),
   ImapLogin |-> Fill(LoginSize, 108),
   ImapPass |-> Fill(PassSize, 112), PopPass |-> Fill(PassSize, 112),
   SmtpPass |-> Fill(PassSize, 112), NntpPass |-> Fill(PassSize, 112),
   ImapOauthRefreshCmd |-> <<120>>, PopOauthRefreshCmd |-> <<120>>,
   SmtpOauthRefreshCmd |-> <<120>>]

\* The configurations with at most n strings set, all among the variables
\* vs, Username one of unames and OptNoCurses either way.
Configs(vs, val, n, unames) ==
  { [v \in ConfigVars |-> IF v \in S THEN val[v] ELSE NULL]
      @@ [Username |-> u, OptNoCurses |-> nc] :
      S \in {T \in SUBSET vs : Cardinality(T) =< n},
      u \in unames, nc \in BOOLEAN }

\* Outcomes of mutt_get_field_unbuffered / mutt_get_password: the text is
\* accepted (rc 0) or the prompt is aborted (rc -1).
PromptOutcomes(inputs) ==
  {[rc |-> 0, buf |-> b] : b \in inputs} \cup {[rc |-> -1, buf |-> NULL]}

\* What the user may type at the username and at the password prompt (NULL:
\* the text the buffer was seeded with is kept).
UserInputs == {NULL, <<98>>}
PassInputs == {NULL, <<113>>}

\* Outcomes of running the refresh command: mutt_create_filter fails, or it
\* succeeds, mutt_file_read_line returns NULL, "" or a token, and the
\* command exits with one of the given statuses.
ProcOutcomes(statuses) ==
  {[spawned |-> FALSE, line |-> NULL, status |-> 0]}
    \cup {[spawned |-> TRUE, line |-> l, status |-> x] :
             l \in {NULL, <<>>, <<116>>}, x \in statuses}

\* URLs handed to mutt_account_fromurl.
Urls(hosts, users, passes, ports) ==
  { [NoUrl EXCEPT !.host = h, !.user = u, !.pass = p, !.port = n] :
      h \in hosts, u \in users, p \in passes, n \in ports }

----------------------------------------------------------------------------
(* The calls.  last.ret is the call's return value (for getoauthbearer 0   *)
(* for a token and -1 for NULL, the token itself being last.token);        *)
(* last.status is the exit status of the process the call waited for.      *)

Has(events, e) == \E i \in 1..Len(events) : events[i] = e

NoCall ==
  [op |-> "none", ret |-> 0, err |-> "None", events |-> <<>>, url |-> NoUrl,
   args |-> <<>>, token |-> NULL, status |-> 0]

Match(peers) ==
  \E a2 \in peers :
    /\ last' = [NoCall EXCEPT !.op = "match", !.args = <<account, a2>>,
                              !.ret = mutt_account_match(account, a2, cfg)]
    /\ UNCHANGED <<account, cfg>>

FromUrl(urls) ==
  \E url \in urls :
    LET r == mutt_account_fromurl(account, url)
    IN  /\ account' = r.account
        /\ last' = [NoCall EXCEPT !.op = "fromurl", !.ret = r.ret, !.url = url]
        /\ UNCHANGED cfg

ToUrl ==
  /\ last' = [NoCall EXCEPT !.op = "tourl", !.url = mutt_account_tourl(account)]
  /\ UNCHANGED <<account, cfg>>

GetUser ==
  \E pr \in PromptOutcomes(UserInputs) :
    LET r == mutt_account_getuser(account, cfg, pr)
    IN  /\ account' = r.account
        /\ last' = [NoCall EXCEPT !.op = "getuser", !.ret = r.ret,
                                  !.events = r.events]
        /\ UNCHANGED cfg

GetLogin ==
  \E pr \in PromptOutcomes(UserInputs) :
    LET r == mutt_account_getlogin(account, cfg, pr)
    IN  /\ account' = r.account
        /\ last' = [NoCall EXCEPT !.op = "getlogin", !.ret = r.ret,
                                  !.events = r.events]
        /\ UNCHANGED cfg

GetPass ==
  \E pr \in PromptOutcomes(PassInputs) :
    LET r == mutt_account_getpass(account, cfg, pr)
    IN  /\ account' = r.account
        /\ last' = [NoCall EXCEPT !.op = "getpass", !.ret = r.ret,
                                  !.events = r.events]
        /\ UNCHANGED cfg

UnsetPass ==
  /\ account' = mutt_account_unsetpass(account)
  /\ last' = [NoCall EXCEPT !.op = "unsetpass"]
  /\ UNCHANGED cfg

GetOAuthBearer(statuses) ==
  \E pr \in PromptOutcomes(UserInputs), proc \in ProcOutcomes(statuses) :
    LET r == mutt_account_getoauthbearer(account, cfg, pr, proc)
    IN  /\ account' = r.account
        /\ last' = [NoCall EXCEPT !.op = "getoauthbearer",
                                  !.ret = IF r.ret = NULL THEN -1 ELSE 0,
                                  !.token = r.ret, !.err = r.err,
                                  !.args = IF Has(r.events, "mutt_file_read_line")
                                           THEN <<proc.line>> ELSE <<>>,
                                  !.status = IF Has(r.events, "mutt_wait_filter")
                                             THEN proc.status ELSE 0,
                                  !.events = r.events]
        /\ UNCHANGED cfg

----------------------------------------------------------------------------
(* Specifications.                                                         *)

\* Credential resolution and token building on one Account, under every
\* configuration with at most MaxConfigured strings set.
InitCred ==
  /\ account \in {FreshAccount(t, FALSE) : t \in AcctTypes}
  /\ cfg \in Configs(ConfigVars, CfgVal, MaxConfigured, {<<117>>})
  /\ last = NoCall

NextCred ==
  \/ GetUser
  \/ GetLogin
  \/ GetPass
  \/ UnsetPass
  \/ GetOAuthBearer({0})

SpecCred == InitCred /\ [][NextCred]_vars

\* Credential resolution under configured usernames, logins and passwords
\* that fit the Account's buffers and ones that do not.
ResolveVars ==
  {"ImapUser", "PopUser", "NntpUser", "ImapLogin",
   "ImapPass", "PopPass", "SmtpPass", "NntpPass"}

InitResolve ==
  /\ account \in {FreshAccount(t, FALSE) : t \in AcctTypes}
  /\ cfg \in Configs(ResolveVars, CfgVal, MaxConfigured, {<<117>>})
               \cup Configs(ResolveVars, CfgLong, MaxConfigured, {<<117>>})
  /\ last = NoCall

NextResolve ==
  \/ GetUser
  \/ GetLogin
  \/ GetPass
  \/ UnsetPass

SpecResolve == InitResolve /\ [][NextResolve]_vars

\* Token building on Accounts that take host and port from a URL, under the
\* configuration variables getlogin and getoauthbearer read.
OAuthUrls == Urls({NULL, <<104>>}, {NULL}, {NULL}, {0, 993})

InitOAuth ==
  /\ account \in {FreshAccount(t, FALSE) : t \in AcctTypes}
  /\ cfg \in Configs({"ImapUser", "PopUser", "NntpUser", "ImapLogin",
                      "ImapOauthRefreshCmd", "PopOauthRefreshCmd",
                      "SmtpOauthRefreshCmd"},
                     CfgVal, MaxConfigured, {<<117>>})
  /\ last = NoCall

NextOAuth ==
  \/ FromUrl(OAuthUrls)
  \/ GetLogin
  \/ GetOAuthBearer({0, 1})

SpecOAuth == InitOAuth /\ [][NextOAuth]_vars

\* The URL bridge: URLs whose host, user and pass are absent, empty, short
\* or one byte too long for the Account's buffer, with and without a port.
BridgeUrls ==
  Urls({NULL, <<>>, <<104>>, Fill(HostSize, 104)},
       {NULL, <<>>, <<98>>, Fill(UserSize, 98)},
       {NULL, <<113>>, Fill(PassSize, 113)},
       {0, 993})

InitUrl ==
  /\ account \in {FreshAccount(t, ssl) : t \in AcctTypes, ssl \in BOOLEAN}
  /\ cfg \in Configs({}, CfgVal, MaxConfigured, {<<117>>})
  /\ last = NoCall

NextUrl ==
  \/ FromUrl(BridgeUrls)
  \/ ToUrl

SpecUrl == InitUrl /\ [][NextUrl]_vars

\* mutt_account_match on pairs of Accounts built from URLs: hosts "h", "H"
\* and "g", no port or port 993, no user or the user "", "c" (the configured
\* default) or "u" (the system login name).
MatchUrls ==
  Urls({<<104>>, <<72>>, <<103>>}, {NULL, <<>>, <<99>>, <<117>>}, {NULL},
       {0, 993})

MatchAccounts(types) ==
  { mutt_account_fromurl(FreshAccount(t, FALSE), u).account :
      t \in types, u \in MatchUrls }

\* The accounts a is compared with: every account of its own type, and one
\* of another type.
MatchPeers(a) ==
  MatchAccounts({a.type})
    \cup { [a EXCEPT !.type = t] :
             t \in {IF a.type = MUTT_ACCT_TYPE_IMAP THEN MUTT_ACCT_TYPE_POP
                    ELSE MUTT_ACCT_TYPE_IMAP} }

\* a with login and password resolved at the prompts.
FullyResolved(a) ==
  LET c == [v \in ConfigVars |-> NULL] @@ [Username |-> <<117>>, OptNoCurses |-> FALSE]
      l == mutt_account_getlogin(a, c, [rc |-> 0, buf |-> NULL]).account
  IN  mutt_account_getpass(l, c, [rc |-> 0, buf |-> <<113>>]).account

InitMatch ==
  /\ account \in MatchAccounts(AcctTypes)
                   \cup {FullyResolved(a) : a \in MatchAccounts(AcctTypes)}
  /\ cfg \in Configs({"ImapUser", "PopUser", "NntpUser"}, CfgVal, MaxConfigured,
                     {NULL, <<117>>})
  /\ last = NoCall

NextMatch == Match({account} \cup MatchPeers(account))

SpecMatch == InitMatch /\ [][NextMatch]_vars

\* All operations on one Account, in any order: URLs without host, with a
\* host only and with every field; the login, password and refresh command
\* configured for IMAP or not.
AllUrls ==
  {NoUrl,
   [NoUrl EXCEPT !.host = <<104>>],
   [NoUrl EXCEPT !.host = <<104>>, !.user = <<98>>, !.pass = <<113>>,
                 !.port = 993]}

AllPeers(a) ==
  {a} \cup { mutt_account_fromurl(FreshAccount(a.type, FALSE), u).account :
               u \in {v \in AllUrls : v.host # NULL} }

AllVars ==
  {"ImapLogin", "ImapPass", "ImapOauthRefreshCmd"}

InitAll ==
  /\ account \in {FreshAccount(t, ssl) : t \in AcctTypes, ssl \in BOOLEAN}
  /\ cfg \in Configs(AllVars, CfgVal, MaxConfigured, {<<117>>})
  /\ last = NoCall

NextAll ==
  \/ FromUrl(AllUrls)
  \/ ToUrl
  \/ Match(AllPeers(account))
  \/ GetUser
  \/ GetLogin
  \/ GetPass
  \/ UnsetPass
  \/ GetOAuthBearer({0})

SpecAll == InitAll /\ [][NextAll]_vars

----------------------------------------------------------------------------
(* What the specification says the configuration provides per protocol.    *)

\* The configured default username of a protocol (NULL: none).
DefaultUserOf(type, c) ==
  CASE type = MUTT_ACCT_TYPE_IMAP -> c.ImapUser
    [] type = MUTT_ACCT_TYPE_POP -> c.PopUser
    [] type = MUTT_ACCT_TYPE_NNTP -> c.NntpUser
    [] OTHER -> NULL

\* The separate login configuration, which only IMAP has.
LoginOf(type, c) ==
  IF type = MUTT_ACCT_TYPE_IMAP THEN c.ImapLogin ELSE NULL

\* The configured password of a protocol.
PasswordOf(type, c) ==
  CASE type = MUTT_ACCT_TYPE_IMAP -> c.ImapPass
    [] type = MUTT_ACCT_TYPE_POP -> c.PopPass
    [] type = MUTT_ACCT_TYPE_SMTP -> c.SmtpPass
    [] type = MUTT_ACCT_TYPE_NNTP -> c.NntpPass

\* The configured refresh command of a protocol; news has none.
RefreshCmdOf(type, c) ==
  CASE type = MUTT_ACCT_TYPE_IMAP -> c.ImapOauthRefreshCmd
    [] type = MUTT_ACCT_TYPE_POP -> c.PopOauthRefreshCmd
    [] type = MUTT_ACCT_TYPE_SMTP -> c.SmtpOauthRefreshCmd
    [] OTHER -> NULL

\* The first n bytes of a string.
Cut(str, n) == SubSeq(str, 1, Min(Len(str), n))

Prompted(events) ==
  Has(events, "mutt_get_field_unbuffered") \/ Has(events, "mutt_get_password")

----------------------------------------------------------------------------
(* Credential resolver (SpecCred).                                         *)

\* C1: getuser, getlogin and getpass are idempotent.  When a call succeeded
\* and the same operation is called again directly after it, the second call
\* succeeds, leaves the whole Account (fields and flags) as it was, and reads
\* no configuration variable and calls no prompt.
C1_Idempotent ==
  [][\A op \in {"getuser", "getlogin", "getpass"} :
       (last.op = op /\ last.ret = 0 /\ last'.op = op)
         => /\ last'.ret = 0
            /\ account' = account
            /\ last'.events = <<>>]_vars

\* A repeated getpass that found the prompted password flagged.
C1_Witness ==
  /\ last.op = "getpass"
  /\ last.ret = 0
  /\ last.events = <<>>
  /\ account.pass = <<113>>
  /\ MUTT_ACCT_PASS \in account.flags

\* C2: a getpass that directly follows unsetpass never returns on the old
\* PASS flag.  It resolves again: the configured password of the protocol if
\* there is one, else failure without a prompt in non-interactive mode, else
\* the password prompt; and PASS is set afterwards exactly if it succeeded.
C2_UnsetThenGetPass ==
  [][(last.op = "unsetpass" /\ last'.op = "getpass")
       => LET cp == PasswordOf(account.type, cfg)
          IN  /\ last'.events # <<>>
              /\ IF cp # NULL
                 THEN /\ last'.ret = 0
                      /\ ~Prompted(last'.events)
                      /\ account'.pass = Cut(cp, PassSize - 1)
                 ELSE IF cfg.OptNoCurses
                 THEN last'.ret = -1 /\ ~Prompted(last'.events)
                 ELSE Has(last'.events, "mutt_get_password")
              /\ (MUTT_ACCT_PASS \in account'.flags <=> last'.ret = 0)]_vars

\* unsetpass has cleared the flag of a password resolved at the prompt; the
\* characters are still stored.
C2_Witness ==
  /\ last.op = "unsetpass"
  /\ MUTT_ACCT_PASS \notin account.flags
  /\ account.pass = <<113>>

\* C3: in non-interactive mode (OptNoCurses set) no call of getuser,
\* getlogin, getpass, unsetpass or getoauthbearer enters the line prompt or
\* the password prompt; a call that has neither the flag nor a configured
\* value to go on fails instead.
C3_NoPromptNonInteractive ==
  [][cfg.OptNoCurses
       => LET needUser == /\ MUTT_ACCT_USER \notin account.flags
                          /\ DefaultUserOf(account.type, cfg) = NULL
              needLogin == /\ MUTT_ACCT_LOGIN \notin account.flags
                           /\ LoginOf(account.type, cfg) = NULL
                           /\ needUser
              needPass == /\ MUTT_ACCT_PASS \notin account.flags
                          /\ PasswordOf(account.type, cfg) = NULL
          IN  /\ ~Prompted(last'.events)
              /\ (last'.op = "getuser" /\ needUser) => last'.ret = -1
              /\ (last'.op \in {"getlogin", "getoauthbearer"} /\ needLogin)
                   => last'.ret = -1
              /\ (last'.op = "getpass" /\ needPass) => last'.ret = -1]_vars

\* A getpass that failed at the OptNoCurses test.
C3_Witness ==
  /\ cfg.OptNoCurses
  /\ last.op = "getpass"
  /\ last.ret = -1
  /\ last.events[Len(last.events)] = "OptNoCurses"

\* C4: when getuser, getlogin, getpass or getoauthbearer fails, every flag
\* set before the call is still set, and the flag of the field the call
\* resolves (USER, LOGIN, PASS; getoauthbearer stores no field of its own)
\* is not set.
C4_FailureKeepsFlags ==
  [][(last'.op \in {"getuser", "getlogin", "getpass", "getoauthbearer"}
        /\ last'.ret = -1)
       => /\ account.flags \subseteq account'.flags
          /\ last'.op = "getuser" => MUTT_ACCT_USER \notin account'.flags
          /\ last'.op = "getlogin" => MUTT_ACCT_LOGIN \notin account'.flags
          /\ last'.op = "getpass" => MUTT_ACCT_PASS \notin account'.flags]_vars

\* An aborted password prompt on an Account whose user and login are set.
C4_Witness ==
  /\ last.op = "getpass"
  /\ last.ret = -1
  /\ Has(last.events, "mutt_get_password")
  /\ {MUTT_ACCT_USER, MUTT_ACCT_LOGIN} \subseteq account.flags
  /\ MUTT_ACCT_PASS \notin account.flags

----------------------------------------------------------------------------
(* Account matcher (SpecMatch).                                            *)

\* C5: match is symmetric: match(a1, a2) = match(a2, a1).
C5_Symmetric ==
  last.op = "match"
    => last.ret = mutt_account_match(last.args[2], last.args[1], cfg)

\* C6: match(a, a) is true for every Account a.
C6_Reflexive ==
  (last.op = "match" /\ last.args[1] = last.args[2]) => last.ret = 1

\* A fully-resolved Account compared with itself.
C6_Witness ==
  /\ last.op = "match"
  /\ last.args[1] = last.args[2]
  /\ {MUTT_ACCT_USER, MUTT_ACCT_LOGIN, MUTT_ACCT_PASS} \subseteq last.args[1].flags
  /\ last.ret = 1

\* Two news Accounts that agree on host and port, one without explicit user
\* and one with the explicit user "".
NewsAbsentVsEmpty(x, y) ==
  /\ x.type = MUTT_ACCT_TYPE_NNTP
  /\ y.type = MUTT_ACCT_TYPE_NNTP
  /\ mutt_str_strcasecmp(x.host, y.host) = 0
  /\ x.port = y.port
  /\ MUTT_ACCT_USER \notin x.flags
  /\ MUTT_ACCT_USER \in y.flags
  /\ y.user = <<>>

NewsDefaultUser(c) ==
  IF c.NntpUser # NULL THEN c.NntpUser ELSE NONULL(c.Username)

----------------------------------------------------------------------------
(* URL bridge (SpecUrl).                                                   *)

\* C8 as claimed: tourl directly after a successful fromurl gives back the
\* URL's host, and its user, pass and port where fromurl set the flag (the
\* URL had the field); user, pass and port are absent where the flag is unset.
C8_RoundTripExact ==
  [][(last.op = "fromurl" /\ last.ret = 0 /\ last'.op = "tourl")
       => LET u == last.url
              o == last'.url
          IN  /\ o.host = u.host
              /\ u.user # NULL => o.user = u.user
              /\ u.pass # NULL => o.pass = u.pass
              /\ u.port # 0 => o.port = u.port
              /\ MUTT_ACCT_USER \notin account.flags => o.user = NULL
              /\ MUTT_ACCT_PASS \notin account.flags => o.pass = NULL
              /\ MUTT_ACCT_PORT \notin account.flags => o.port = 0]_vars

\* C8 as the code has it: host, user and pass come back cut to what the
\* Account's buffer holds (its size less one); the port comes back as it was.
C8_RoundTripCut ==
  [][(last.op = "fromurl" /\ last.ret = 0 /\ last'.op = "tourl")
       => LET u == last.url
              o == last'.url
          IN  /\ o.host = Cut(u.host, HostSize - 1)
              /\ u.user # NULL => o.user = Cut(u.user, UserSize - 1)
              /\ u.pass # NULL => o.pass = Cut(u.pass, PassSize - 1)
              /\ u.port # 0 => o.port = u.port
              /\ MUTT_ACCT_USER \notin account.flags => o.user = NULL
              /\ MUTT_ACCT_PASS \notin account.flags => o.pass = NULL
              /\ MUTT_ACCT_PORT \notin account.flags => o.port = 0]_vars

\* tourl of an Account filled from a URL with a host too long for the
\* buffer, a user and a port, and no pass.
C8_Witness ==
  /\ last.op = "tourl"
  /\ last.url.host = Cut(Fill(HostSize, 104), HostSize - 1)
  /\ last.url.user = <<98>>
  /\ last.url.pass = NULL
  /\ last.url.port = 993

----------------------------------------------------------------------------
(* OAuth token builder (SpecOAuth).                                        *)

\* C9: the token getoauthbearer returns is the base64 encoding of
\* "n,a=" login ",\001host=" host "\001port=" port "\001auth=Bearer " line
\* "\001\001": login the Account's resolved login (LOGIN set), line the line
\* read from the refresh command, port in decimal and 0 when PORT is unset.
C9_BearerToken ==
  (last.op = "getoauthbearer" /\ last.ret = 0)
    => /\ MUTT_ACCT_LOGIN \in account.flags
       /\ Len(last.args) = 1
       /\ last.token =
            mutt_b64_encode(
              <<110, 44, 97, 61>> \o account.login
                \o <<44, 1, 104, 111, 115, 116, 61>> \o account.host
                \o <<1, 112, 111, 114, 116, 61>>
                \o DecStr(IF MUTT_ACCT_PORT \in account.flags
                          THEN account.port ELSE 0)
                \o <<1, 97, 117, 116, 104, 61, 66, 101, 97, 114, 101, 114, 32>>
                \o last.args[1] \o <<1, 1>>)

\* A token for host "h", port 993.
C9_Witness ==
  /\ last.op = "getoauthbearer"
  /\ last.ret = 0
  /\ account.host = <<104>>
  /\ account.port = 993
  /\ last.args = << <<116>> >>

\* C10 as claimed: with no refresh command configured for the Account's
\* protocol, getoauthbearer fails with NoRefreshCommand, returns no token
\* and spawns no process.
C10_NoRefreshCommand ==
  (last.op = "getoauthbearer" /\ RefreshCmdOf(account.type, cfg) = NULL)
    => /\ last.err = "NoRefreshCommand"
       /\ last.ret = -1
       /\ last.token = NULL
       /\ ~Has(last.events, "mutt_create_filter")

\* C10 as the code has it: no token and no process in every such call; the
\* NoRefreshCommand diagnostic when the login was resolved, and none when
\* login resolution failed first.
C10_NoRefreshCommandAfterLogin ==
  (last.op = "getoauthbearer" /\ RefreshCmdOf(account.type, cfg) = NULL)
    => /\ last.ret = -1
       /\ last.token = NULL
       /\ ~Has(last.events, "mutt_create_filter")
       /\ last.err = IF MUTT_ACCT_LOGIN \in account.flags
                     THEN "NoRefreshCommand" ELSE "None"

\* A news Account, whose protocol has no refresh command, with its login
\* resolved.
C10_Witness ==
  /\ last.op = "getoauthbearer"
  /\ account.type = MUTT_ACCT_TYPE_NNTP
  /\ MUTT_ACCT_LOGIN \in account.flags
  /\ last.err = "NoRefreshCommand"

\* C11: whenever the refresh command was spawned and the line read from it
\* is absent (no output) or empty, getoauthbearer fails with
\* EmptyRefreshToken and returns no token, whatever the exit status of the
\* command.
C11_EmptyRefreshToken ==
  (/\ last.op = "getoauthbearer"
   /\ Has(last.events, "mutt_file_read_line")
   /\ last.args[1] \in {NULL, <<>>})
    => /\ last.err = "EmptyRefreshToken"
       /\ last.ret = -1
       /\ last.token = NULL

\* A refresh command that exits with status 0 after printing an empty line.
C11_Witness ==
  /\ last.op = "getoauthbearer"
  /\ last.args = << <<>> >>
  /\ last.status = 0
  /\ last.err = "EmptyRefreshToken"

\* How often the event e occurs, and where it occurs first.
Count(events, e) == Cardinality({i \in 1..Len(events) : events[i] = e})

Pos(events, e) == CHOOSE i \in 1..Len(events) :
                    events[i] = e /\ \A j \in 1..(i - 1) : events[j] # e

\* The globals and services login resolution may touch, and the variables
\* holding the refresh commands.
LoginEvents ==
  {"ImapLogin", "ImapUser", "PopUser", "NntpUser", "OptNoCurses", "Username",
   "mutt_get_field_unbuffered"}

RefreshCmdVars ==
  {"ImapOauthRefreshCmd", "PopOauthRefreshCmd", "SmtpOauthRefreshCmd"}

\* C14: the events of every getoauthbearer call are ordered.  A process is
\* spawned at most once, only after login resolution has succeeded and then
\* the refresh command has been selected, and never when login resolution
\* failed.  After a successful spawn exactly one line is read, the stream is
\* closed and the process is waited for, in that order, before the call
\* returns with a token or with the empty-token failure; no call returns
\* with a spawned process not waited for.
C14_OAuthOrder ==
  last.op = "getoauthbearer"
    => LET ev == last.events
           k == Pos(ev, "mutt_create_filter")
       IN  /\ Count(ev, "mutt_create_filter") =< 1
           /\ MUTT_ACCT_LOGIN \notin account.flags
                 => ~Has(ev, "mutt_create_filter")
           /\ Has(ev, "mutt_create_filter")
                 => /\ MUTT_ACCT_LOGIN \in account.flags
                    /\ ~Has(ev, "mutt_debug")
                    /\ k > 1
                    /\ ev[k - 1] \in RefreshCmdVars
                    /\ \A j \in 1..(k - 2) : ev[j] \in LoginEvents
           /\ (Has(ev, "mutt_create_filter") /\ last.err # "SpawnFailed")
                 => /\ last.err \in {"None", "EmptyRefreshToken"}
                    /\ Len(ev) >= k + 3
                    /\ SubSeq(ev, k + 1, k + 3)
                         = <<"mutt_file_read_line", "mutt_file_fclose",
                             "mutt_wait_filter">>
                    /\ Count(ev, "mutt_file_read_line") = 1
                    /\ Count(ev, "mutt_file_fclose") = 1
                    /\ Count(ev, "mutt_wait_filter") = 1
                    /\ Len(ev) = k + 4
                    /\ ev[k + 4] = IF last.err = "None"
                                   THEN "mutt_b64_encode" ELSE "mutt_error"
           /\ last.err = "SpawnFailed"
                 => /\ Has(ev, "mutt_create_filter")
                    /\ ~Has(ev, "mutt_file_read_line")
                    /\ ~Has(ev, "mutt_file_fclose")
                    /\ ~Has(ev, "mutt_wait_filter")

\* An empty-token failure of a call that resolved the login at the prompt:
\* the process was spawned, read, closed and waited for.
C14_Witness ==
  /\ last.op = "getoauthbearer"
  /\ last.err = "EmptyRefreshToken"
  /\ Has(last.events, "mutt_get_field_unbuffered")
  /\ Has(last.events, "mutt_wait_filter")

----------------------------------------------------------------------------
(* Credential resolver, sources of a field (SpecResolve).                  *)

\* What C15 says of a getlogin with LOGIN unset, the login taken from the
\* separate login configuration being stored as stored(value).  Otherwise
\* getlogin does what getuser does on the same Account and prompt: on its
\* success login is user and USER and LOGIN are set, on its failure getlogin
\* fails and LOGIN stays unset.
GetLoginStep(stored(_)) ==
  (last'.op = "getlogin" /\ MUTT_ACCT_LOGIN \notin account.flags)
    => LET cl == LoginOf(account.type, cfg)
       IN  IF cl # NULL
           THEN /\ last'.ret = 0
                /\ account' = [account EXCEPT
                                 !.login = stored(cl),
                                 !.flags = @ \cup {MUTT_ACCT_LOGIN}]
                /\ ~Prompted(last'.events)
                /\ \A v \in {"ImapUser", "PopUser", "NntpUser", "Username",
                              "OptNoCurses"} : ~Has(last'.events, v)
           ELSE \E pr \in PromptOutcomes(UserInputs) :
                  LET u == mutt_account_getuser(account, cfg, pr)
                  IN  /\ last'.ret = u.ret
                      /\ account'.user = u.account.user
                      /\ Prompted(last'.events) <=> Prompted(u.events)
                      /\ IF u.ret = 0
                         THEN /\ account'.login = account'.user
                              /\ account'.flags = u.account.flags
                                                    \cup {MUTT_ACCT_LOGIN}
                              /\ MUTT_ACCT_USER \in account'.flags
                         ELSE /\ account'.login = account.login
                              /\ account'.flags = u.account.flags
                              /\ MUTT_ACCT_LOGIN \notin account'.flags

Same(str) == str

CutLogin(str) == Cut(str, LoginSize - 1)

\* C15 as claimed: the login becomes the configured login value.
C15_GetLoginExact ==
  [][GetLoginStep(Same)]_vars

\* C15 as the code has it: the login becomes the configured login value cut
\* to what the login buffer holds (its size less one).
C15_GetLoginCut ==
  [][GetLoginStep(CutLogin)]_vars

\* A login taken from a configured value too long for the buffer, the user
\* not resolved.
C15_Witness ==
  /\ last.op = "getlogin"
  /\ last.ret = 0
  /\ Len(cfg.ImapLogin) = LoginSize
  /\ account.login = Cut(cfg.ImapLogin, LoginSize - 1)
  /\ MUTT_ACCT_LOGIN \in account.flags
  /\ MUTT_ACCT_USER \notin account.flags

\* What C16 says of getuser and getpass, a configured value being stored as
\* storedUser(value), resp. storedPass(value).  With the flag unset and a
\* value configured for the protocol the call succeeds without a prompt and
\* the field holds the stored value; in non-interactive mode the call
\* succeeds exactly if the flag was set or such a value is configured.
ResolveStep(storedUser(_), storedPass(_)) ==
  LET cu == DefaultUserOf(account.type, cfg)
      cp == PasswordOf(account.type, cfg)
  IN  /\ (/\ last'.op = "getuser"
          /\ MUTT_ACCT_USER \notin account.flags
          /\ cu # NULL)
           => /\ last'.ret = 0
              /\ ~Prompted(last'.events)
              /\ account'.user = storedUser(cu)
              /\ MUTT_ACCT_USER \in account'.flags
      /\ (/\ last'.op = "getpass"
          /\ MUTT_ACCT_PASS \notin account.flags
          /\ cp # NULL)
           => /\ last'.ret = 0
              /\ ~Prompted(last'.events)
              /\ account'.pass = storedPass(cp)
              /\ MUTT_ACCT_PASS \in account'.flags
      /\ (last'.op = "getuser" /\ cfg.OptNoCurses)
           => (last'.ret = 0
                 <=> (MUTT_ACCT_USER \in account.flags \/ cu # NULL))
      /\ (last'.op = "getpass" /\ cfg.OptNoCurses)
           => (last'.ret = 0
                 <=> (MUTT_ACCT_PASS \in account.flags \/ cp # NULL))

CutUser(str) == Cut(str, UserSize - 1)

CutPass(str) == Cut(str, PassSize - 1)

\* C16 as claimed: the field equals the configured value.
C16_ConfiguredFirstExact ==
  [][ResolveStep(Same, Same)]_vars

\* C16 as the code has it: the field equals the configured value cut to
\* what the field's buffer holds (its size less one).
C16_ConfiguredFirstCut ==
  [][ResolveStep(CutUser, CutPass)]_vars

\* In interactive mode, a username taken from a configured default too long
\* for the buffer, with no prompt.
C16_Witness ==
  /\ last.op = "getuser"
  /\ last.ret = 0
  /\ ~cfg.OptNoCurses
  /\ last.events = <<"PopUser">>
  /\ Len(cfg.PopUser) = UserSize
  /\ account.user = Cut(cfg.PopUser, UserSize - 1)

----------------------------------------------------------------------------
(* Account matcher, the fields compared (SpecMatch).                       *)

\* The port of an Account as an optional value.
PortOf(a) ==
  IF MUTT_ACCT_PORT \in a.flags THEN <<a.port>> ELSE <<>>

\* C17: match is false whenever the two Accounts differ in type, in host
\* compared without regard to letter case, or in port, an absent port (PORT
\* unset) being equal to an absent port only.  Hosts that differ in letter
\* case only do not prevent a match: the result is that of the same pair
\* with the first Account's host in both.
C17_TypeHostPort ==
  last.op = "match"
    => LET a1 == last.args[1]
           a2 == last.args[2]
       IN  /\ a1.type # a2.type => last.ret = 0
           /\ LowerStr(a1.host) # LowerStr(a2.host) => last.ret = 0
           /\ PortOf(a1) # PortOf(a2) => last.ret = 0
           /\ LowerStr(a1.host) = LowerStr(a2.host)
                => last.ret
                     = mutt_account_match(a1, [a2 EXCEPT !.host = a1.host], cfg)

\* Hosts "h" and "H", everything else alike: a match.
C17_Witness ==
  /\ last.op = "match"
  /\ last.args[1].host = <<104>>
  /\ last.args[2].host = <<72>>
  /\ last.ret = 1

\* The computed default username of a protocol: its configured default if
\* set, else the system login name.
ComputedDefault(type, c) ==
  IF DefaultUserOf(type, c) # NULL
  THEN DefaultUserOf(type, c) ELSE NONULL(c.Username)

\* C18: for two Accounts that agree on type, host and port.  If both have
\* an explicit user, match is true exactly if the two users are equal,
\* whatever the defaults; if neither has one, match is true; for the
\* protocols other than news, if exactly one has an explicit user, match is
\* true exactly if that user equals the computed default.
C18_UserComparison ==
  LET a1 == last.args[1]
      a2 == last.args[2]
      e1 == MUTT_ACCT_USER \in a1.flags
      e2 == MUTT_ACCT_USER \in a2.flags
      def == ComputedDefault(a1.type, cfg)
  IN  (/\ last.op = "match"
       /\ a1.type = a2.type
       /\ LowerStr(a1.host) = LowerStr(a2.host)
       /\ PortOf(a1) = PortOf(a2))
        => /\ (e1 /\ e2) => (last.ret = 1 <=> a1.user = a2.user)
           /\ (~e1 /\ ~e2) => last.ret = 1
           /\ (a1.type # MUTT_ACCT_TYPE_NNTP /\ e1 /\ ~e2)
                => (last.ret = 1 <=> a1.user = def)
           /\ (a1.type # MUTT_ACCT_TYPE_NNTP /\ ~e1 /\ e2)
                => (last.ret = 1 <=> a2.user = def)

\* A POP Account without explicit user against one whose explicit user is
\* the configured default, the system login name being another: a match.
C18_Witness ==
  /\ last.op = "match"
  /\ last.args[1].type = MUTT_ACCT_TYPE_POP
  /\ last.args[2].type = MUTT_ACCT_TYPE_POP
  /\ MUTT_ACCT_USER \notin last.args[1].flags
  /\ MUTT_ACCT_USER \in last.args[2].flags
  /\ last.args[2].user = cfg.PopUser
  /\ cfg.Username # cfg.PopUser
  /\ last.ret = 1

----------------------------------------------------------------------------
(* URL bridge, error handling (SpecUrl).                                   *)

\* C12: fromurl requires a non-empty url.host.  For a URL whose host is
\* absent or empty it returns the error and leaves the Account's fields and
\* flags as they were; for a URL with a non-empty host it succeeds.
C12_HostRequired ==
  [][last'.op = "fromurl"
       => IF last'.url.host = NULL \/ last'.url.host = <<>>
          THEN last'.ret = -1 /\ account' = account
          ELSE last'.ret = 0]_vars

----------------------------------------------------------------------------
(* Credential resolver, prompts and priorities (SpecCred).                 *)

\* C13: when getpass takes the password from the prompt and the prompt
\* hands back an empty string, getpass fails and PASS stays unset.
C13_EmptyPromptFails ==
  (/\ last.op = "getpass"
   /\ Has(last.events, "mutt_get_password")
   /\ account.pass = <<>>)
    => /\ last.ret = -1
       /\ MUTT_ACCT_PASS \notin account.flags

----------------------------------------------------------------------------
(* Flags over all operations (SpecAll).                                    *)

\* C19: unsetpass clears the PASS flag and changes nothing else: the USER,
\* LOGIN, PORT and SSL flags, the stored pass characters and every other
\* field are as before, and with PASS already clear the Account is as
\* before.
C19_UnsetPassFrame ==
  [][last'.op = "unsetpass"
       => /\ MUTT_ACCT_PASS \notin account'.flags
          /\ \A f \in {MUTT_ACCT_USER, MUTT_ACCT_LOGIN, MUTT_ACCT_PORT,
                         MUTT_ACCT_SSL} :
                f \in account'.flags <=> f \in account.flags
          /\ account'.pass = account.pass
          /\ account'.type = account.type
          /\ account'.host = account.host
          /\ account'.port = account.port
          /\ account'.user = account.user
          /\ account'.login = account.login
          /\ MUTT_ACCT_PASS \notin account.flags => account' = account]_vars

\* unsetpass on an Account with every flag set: the four others are still
\* set and the prompted password is still stored.
C19_Witness ==
  /\ last.op = "unsetpass"
  /\ account.flags = {MUTT_ACCT_USER, MUTT_ACCT_LOGIN, MUTT_ACCT_PORT,
                       MUTT_ACCT_SSL}
  /\ account.pass = <<113>>

\* C20: over every sequence of fromurl, tourl, match, getuser, getlogin,
\* getpass, unsetpass and getoauthbearer calls no call clears USER, LOGIN,
\* PORT or SSL, PASS is cleared by unsetpass only, and match and tourl
\* leave the whole Account as it was.
C20_FlagsMonotonic ==
  [][/\ \A f \in {MUTT_ACCT_USER, MUTT_ACCT_LOGIN, MUTT_ACCT_PORT,
                    MUTT_ACCT_SSL} :
           f \in account.flags => f \in account'.flags
     /\ (MUTT_ACCT_PASS \in account.flags /\ MUTT_ACCT_PASS \notin account'.flags)
          => last'.op = "unsetpass"
     /\ last'.op \in {"match", "tourl"} => account' = account]_vars

\* A getpass that found the password at the prompt on an Account whose
\* other four flags were set before: all five are set.
C20_Witness ==
  /\ last.op = "getpass"
  /\ Has(last.events, "mutt_get_password")
  /\ account.flags = {MUTT_ACCT_USER, MUTT_ACCT_LOGIN, MUTT_ACCT_PORT,
                       MUTT_ACCT_SSL, MUTT_ACCT_PASS}

====
